---- MODULE Spec2Model ----
(***************************************************************************)
(* Model of the asynchronous file logger of GnezIew/LogCollection          *)
(* (package Logger, type Log): SetLogger/InitLogger, Infof/Errorf, the     *)
(* writer goroutine logWriteToFile with date rotation (createLogFile),     *)
(* the retention sweep clearOldLogs and Close.                             *)
(*                                                                         *)
(* Time is a tick counter; a calendar day is TicksPerDay ticks.  The file  *)
(* system is a map from paths to files; an open handle keeps working after *)
(* its path is removed (POSIX unlink), and a write on a closed handle      *)
(* fails with an error that the code ignores.                              *)
(***************************************************************************)
EXTENDS Integers, Sequences, FiniteSets, TLC

VARIABLES
    now,          \* wall clock, in ticks
    proc,         \* "running", "fatal" (log.Fatal) or "panic"
    ioFaults,     \* whether the environment may fail an I/O call in this run
    LogLevel,     \* Log.LogLevel
    FilePath,     \* Log.FilePath
    MaxDay,       \* Log.MaxDay
    currentFile,  \* Log.currentFile: index into handles, 0 is nil
    currentDate,  \* Log.currentDate
    logChannels,  \* Log.logChannels: index into chans, 0 is nil
    chans,        \* every channel made so far: [buf, closed]
    files,        \* the file system: path -> [mtime, isDir, lines]
    handles,      \* every *os.File opened so far: [path, open, linked]
    mainPc,       \* the configuring thread: "idle" or inside SetLogger
    mainArgs,     \* the arguments of the last SetLogger call, and the level before it
    nConfigure,   \* SetLogger calls started
    producers,    \* caller goroutines of Infof/Errorf
    nextId,       \* lines formatted so far
    writers,      \* logWriteToFile goroutines
    sweeps,       \* clearOldLogs goroutines that have not finished
    writes,       \* history: every WriteString call of a writer
    sweepErrs     \* history: sweeps that returned an error

vars == <<now, proc, ioFaults, LogLevel, FilePath, MaxDay, currentFile,
          currentDate, logChannels, chans, files, handles, mainPc, mainArgs,
          nConfigure, producers, nextId, writers, sweeps, writes,
          sweepErrs>>

(***************************************************************************)
(* Bounds of the model.                                                    *)
(***************************************************************************)
TicksPerDay == 2      \* clock ticks in one calendar day
MaxTime == 4          \* the clock stops here
MaxLines == 3         \* Infof/Errorf calls in a run
MaxConfigure == 2     \* SetLogger calls in a run
MaxSweeps == 2        \* sweep goroutines alive at once; further ones never get scheduled
ChanCap == 2          \* capacity of logChannels (3000 in the source, scaled down)

(***************************************************************************)
(* Program constants.                                                      *)
(***************************************************************************)
Debug == 1
Info == 2
Error == 3
DefaultMaxDay == 7

ProducerIds == {"p1", "p2"}

\* The working directory and the directory the configured relative path names.
CwdDir == "/srv/app"
LogDir == "/srv/LogFile"

\* Modification time of the files that are there before the program starts:
\* older than any retention window the model uses.
StaleTime == 0 - (DefaultMaxDay + 1) * TicksPerDay

(***************************************************************************)
(* Pure helpers.                                                           *)
(***************************************************************************)
\* A string is a pair: its text up to its last suffix, and that suffix.
EmptyString == [stem |-> "", ext |-> ""]

\* s + suffix
Concat(s, suffix) == [stem |-> s.stem \o s.ext, ext |-> suffix]

\* time.Time.Format("2006-01-02")
DateString(t) == [stem |-> "2006-01-0" \o ToString((t \div TicksPerDay) + 1), ext |-> ""]

\* data.Format("2006-01-02") + ".log"
formatLogFileName(t) == Concat(DateString(t), ".log")

\* strings.HasSuffix(path, ".log")
HasLogSuffix(path) == path.name.ext = ".log"

\* filepath.Abs
relativePathToAbsPath(p) ==
    CASE p = "." -> CwdDir
      [] p = "../LogFile" -> LogDir
      [] OTHER -> p

\* l.FilePath + "/" + FileName, as the kernel resolves it
JoinPath(dir, name) == [dir |-> relativePathToAbsPath(dir), name |-> name]

\* Mutant: the switch has no case for Error.
GetLevelStringNoError(lv) ==
    CASE lv = Debug -> "Debug"
      [] lv = Info -> "Info"
      [] OTHER -> ""

GetLevelString(lv) ==
    CASE lv = Debug -> "Debug"
      [] lv = Info -> "Info"
      [] lv = Error -> "Error"
      [] OTHER -> ""

\* time.Now().AddDate(0, 0, -int(l.MaxDay))
CutoffDate(t, maxDay) == t - maxDay * TicksPerDay

\* Outcomes of an I/O call: it may fail only in a run with I/O faults.
IoOutcomes == IF ioFaults THEN {TRUE, FALSE} ELSE {TRUE}

RemoveAt(s, i) == SubSeq(s, 1, i - 1) \o SubSeq(s, i + 1, Len(s))

\* Place of a file name in the lexical order of the names the program meets:
\* the dated names first, by date, then "archive", "notes", "old".
NameRank(name) ==
    CASE name.stem = "archive" -> MaxTime + 1
      [] name.stem = "notes" -> MaxTime + 2
      [] name.stem = "old" -> MaxTime + 3
      [] OTHER -> CHOOSE t \in 0..MaxTime : DateString(t).stem = name.stem

\* The names of S in lexical order (filepath.Walk sorts the names it reads)
RECURSIVE SortedNames(_)
SortedNames(S) ==
    IF S = {} THEN <<>>
    ELSE LET x == CHOOSE y \in S : \A z \in S : NameRank(y) <= NameRank(z)
         IN  <<x>> \o SortedNames(S \ {x})

Running == proc = "running"

(***************************************************************************)
(* File system.                                                            *)
(***************************************************************************)
Exists(path) == path \in DOMAIN files

\* os.OpenFile(path, O_CREATE|O_APPEND|O_WRONLY): the file system after the call
OpenedFiles(path) ==
    IF Exists(path) THEN files
    ELSE [p \in DOMAIN files \cup {path} |->
            IF p = path THEN [mtime |-> now, isDir |-> FALSE, lines |-> <<>>]
            ELSE files[p]]

NewHandle(path) == [path |-> path, open |-> TRUE, linked |-> TRUE]

\* (*os.File).Close on handle h (nil and already closed handles are left alone)
ClosedHandles(h) ==
    IF h = 0 THEN handles
    ELSE [handles EXCEPT ![h].open = FALSE]

\* os.Remove(path): the path goes, the handles open on it keep an unlinked file
RemovedFiles(path) == [p \in DOMAIN files \ {path} |-> files[p]]

UnlinkedHandles(path) ==
    [i \in DOMAIN handles |->
        IF handles[i].path = path /\ handles[i].linked
        THEN [handles[i] EXCEPT !.linked = FALSE]
        ELSE handles[i]]

\* Mutant: the walk stops after the first entry of the directory.
DirEntriesFirstOnly(dir) ==
    SubSeq(SortedNames({p.name : p \in {q \in DOMAIN files : q.dir = dir}}), 1, 1)

\* Names of the entries of directory dir, in the order filepath.Walk visits them
DirEntries(dir) == SortedNames({p.name : p \in {q \in DOMAIN files : q.dir = dir}})

InitFiles ==
    LET old == [mtime |-> StaleTime, isDir |-> FALSE, lines |-> <<>>]
        dir == [mtime |-> StaleTime, isDir |-> TRUE, lines |-> <<>>]
    IN  ([dir |-> LogDir, name |-> [stem |-> "old", ext |-> ".log"]] :> old)
     @@ ([dir |-> LogDir, name |-> [stem |-> "notes", ext |-> ".txt"]] :> old)
     @@ ([dir |-> LogDir, name |-> [stem |-> "archive", ext |-> ".log"]] :> dir)
     @@ ([dir |-> CwdDir, name |-> [stem |-> "old", ext |-> ".log"]] :> old)

(***************************************************************************)
(* Initial state: a fresh Log value (NewLogger), no goroutine started.     *)
(***************************************************************************)
InitState ==
    /\ now = 0
    /\ proc = "running"
    /\ LogLevel = 0
    /\ FilePath = ""
    /\ MaxDay = 0
    /\ currentFile = 0
    /\ currentDate = EmptyString
    /\ logChannels = 0
    /\ chans = <<>>
    /\ files = InitFiles
    /\ handles = <<>>
    /\ mainPc = "idle"
    /\ mainArgs = [Level |-> 0, FilePath |-> "", MaxDay |-> 0, was |-> 0]
    /\ nConfigure = 0
    /\ producers = [p \in ProducerIds |-> [pc |-> "idle", ch |-> 0, line |-> 0, tag |-> ""]]
    /\ nextId = 0
    /\ writers = <<>>
    /\ sweeps = <<>>
    /\ writes = <<>>
    /\ sweepErrs = 0

Init == InitState /\ ioFaults = FALSE

InitFaults == InitState /\ ioFaults = TRUE

(***************************************************************************)
(* The clock.                                                              *)
(***************************************************************************)
Tick ==
    /\ Running
    /\ now < MaxTime
    /\ now' = now + 1
    /\ UNCHANGED <<proc, ioFaults, LogLevel, FilePath, MaxDay, currentFile,
                   currentDate, logChannels, chans, files, handles, mainPc,
                   mainArgs, nConfigure, producers, nextId,
                   writers, sweeps, writes, sweepErrs>>

(***************************************************************************)
(* go func() { l.clearOldLogs() }(): a sweep goroutine is started.  Beyond *)
(* MaxSweeps live sweeps the new goroutine is never scheduled.             *)
(***************************************************************************)
SpawnSweep(origin) ==
    IF Len(sweeps) < MaxSweeps
    THEN Append(sweeps, [pc |-> "start", origin |-> origin, cutoff |-> 0,
                         maxDay |-> 0, dir |-> "", todo |-> <<>>])
    ELSE sweeps

(***************************************************************************)
(* SetLogger, first half: InitLogger.                                      *)
(***************************************************************************)
InitLogger(Level, Path, Days) ==
    /\ Running
    /\ mainPc = "idle"
    /\ nConfigure < MaxConfigure
    /\ nConfigure' = nConfigure + 1
    /\ mainArgs' = [Level |-> Level, FilePath |-> Path, MaxDay |-> Days,
                    was |-> LogLevel]
    /\ LogLevel' = Info
    /\ MaxDay' = DefaultMaxDay
    /\ FilePath' = "."
    /\ chans' = Append(chans, [buf |-> <<>>, closed |-> FALSE])
    /\ logChannels' = Len(chans) + 1
    /\ sweeps' = SpawnSweep("startup")
    /\ mainPc' = "SetLogger"
    /\ UNCHANGED <<now, proc, ioFaults, currentFile, currentDate, files,
                   handles, producers, nextId, writers, writes,
                   sweepErrs>>

\* The level switch of SetLogger
SetLevel(old, Level) ==
    IF Level \in {Debug, Info, Error} THEN Level ELSE old

(***************************************************************************)
(* SetLogger after InitLogger, up to l.currentFile = File: the level, the  *)
(* path, MaxDay and today's file, named by the first time.Now().           *)
(***************************************************************************)
SetLogger ==
    /\ Running
    /\ mainPc = "SetLogger"
    /\ \E ok \in IoOutcomes :
        LET path == IF mainArgs.FilePath # "" THEN mainArgs.FilePath ELSE FilePath
            abs == relativePathToAbsPath(path)
            file == JoinPath(abs, formatLogFileName(now))
        IN  IF ok
            THEN /\ LogLevel' = SetLevel(LogLevel, mainArgs.Level)
                 /\ FilePath' = abs
                 /\ MaxDay' = mainArgs.MaxDay
                 /\ files' = OpenedFiles(file)
                 /\ handles' = Append(handles, NewHandle(file))
                 /\ currentFile' = Len(handles) + 1
                 /\ mainPc' = "SetLoggerDate"
                 /\ proc' = proc
            ELSE \* os.MkdirAll or os.OpenFile failed: log.Fatal
                 /\ proc' = "fatal"
                 /\ UNCHANGED <<LogLevel, FilePath, MaxDay, files, handles,
                                currentFile, mainPc>>
    /\ UNCHANGED <<now, ioFaults, currentDate, logChannels, chans, mainArgs,
                   nConfigure, producers, nextId, writers, sweeps, writes,
                   sweepErrs>>

(***************************************************************************)
(* The end of SetLogger: l.currentDate from the second time.Now(), then    *)
(* go l.logWriteToFile().                                                  *)
(***************************************************************************)
SetLoggerDate ==
    /\ Running
    /\ mainPc = "SetLoggerDate"
    /\ currentDate' = formatLogFileName(now)
    /\ writers' = Append(writers, [pc |-> "start", ch |-> 0, line |-> 0,
                                   tag |-> "", date |-> EmptyString])
    /\ mainPc' = "idle"
    /\ UNCHANGED <<now, proc, ioFaults, LogLevel, FilePath, MaxDay, currentFile,
                   logChannels, chans, files, handles, mainArgs, nConfigure,
                   producers, nextId, sweeps, writes, sweepErrs>>

(***************************************************************************)
(* Infof / Errorf up to the channel send.  Errorf assigns l.LogLevel and   *)
(* then calls syncWriteLog; Infof calls it at once.  syncWriteLog formats  *)
(* the line with the level it reads then (logWithCallerInfo) and reaches   *)
(* the send.                                                               *)
(***************************************************************************)
\* Calls that have begun and have not formatted their line yet
Entered == Cardinality({q \in ProducerIds : producers[q].pc = "Errorf"})

logWithCallerInfo(p) ==
    /\ nextId' = nextId + 1
    /\ producers' = [producers EXCEPT ![p] =
           [pc |-> "send", ch |-> logChannels, line |-> nextId + 1,
            tag |-> GetLevelString(LogLevel)]]
    /\ UNCHANGED <<now, proc, ioFaults, LogLevel, FilePath, MaxDay, currentFile,
                   currentDate, logChannels, chans, files, handles, mainPc,
                   mainArgs, nConfigure, writers, sweeps, writes,
                   sweepErrs>>

\* l.LogLevel = Error
Errorf(p) ==
    /\ Running
    /\ producers[p].pc = "idle"
    /\ nextId + Entered < MaxLines
    /\ LogLevel' = Error
    /\ producers' = [producers EXCEPT ![p].pc = "Errorf"]
    /\ UNCHANGED <<now, proc, ioFaults, FilePath, MaxDay, currentFile,
                   currentDate, logChannels, chans, files, handles, mainPc,
                   mainArgs, nConfigure, nextId, writers, sweeps, writes,
                   sweepErrs>>

\* l.syncWriteLog(format, a...) of Errorf, up to the send
ErrorfFormat(p) ==
    /\ Running
    /\ producers[p].pc = "Errorf"
    /\ logWithCallerInfo(p)

\* l.syncWriteLog(format, a...) of Infof, up to the send
Infof(p) ==
    /\ Running
    /\ producers[p].pc = "idle"
    /\ nextId + Entered < MaxLines
    /\ logWithCallerInfo(p)

(***************************************************************************)
(* l.logChannels <- message: blocks on a nil or full channel, panics on a  *)
(* closed one; once the line is in the buffer the call returns.            *)
(***************************************************************************)
\* Mutant: the capacity test is off by one.
ChanHasRoomOffByOne(buf) == Len(buf) <= ChanCap

\* Whether a send on a channel with buffer buf goes through (make(chan string, cap))
ChanHasRoom(buf) == Len(buf) < ChanCap

syncWriteLog(p) ==
    LET me == producers[p] IN
    /\ Running
    /\ me.pc = "send"
    /\ me.ch # 0
    /\ IF chans[me.ch].closed
       THEN /\ proc' = "panic"
            /\ UNCHANGED <<chans, producers>>
       ELSE /\ ChanHasRoom(chans[me.ch].buf)
            /\ chans' = [chans EXCEPT ![me.ch].buf =
                            Append(@, [id |-> me.line, tag |-> me.tag])]
            /\ producers' = [producers EXCEPT ![p].pc = "idle"]
            /\ proc' = proc
    /\ UNCHANGED <<now, ioFaults, LogLevel, FilePath, MaxDay, currentFile,
                   currentDate, logChannels, files, handles, mainPc, mainArgs,
                   nConfigure, nextId, writers, sweeps, writes,
                   sweepErrs>>

(***************************************************************************)
(* logWriteToFile.  The goroutine evaluates l.logChannels when it starts   *)
(* to run, then loops: receive, rotation check, rotation, write.           *)
(***************************************************************************)
WriterStart(w) ==
    /\ Running
    /\ writers[w].pc = "start"
    /\ writers' = [writers EXCEPT ![w].pc = "recv", ![w].ch = logChannels]
    /\ UNCHANGED <<now, proc, ioFaults, LogLevel, FilePath, MaxDay, currentFile,
                   currentDate, logChannels, chans, files, handles, mainPc,
                   mainArgs, nConfigure, producers, nextId, sweeps,
                   writes, sweepErrs>>

\* Mutant: the loop ends as soon as the channel is empty.
RangeEndsWhenEmpty(c) == TRUE

\* Whether range l.logChannels ends on finding channel c empty
RangeEnds(c) == chans[c].closed

\* Mutant: the receive hands out the oldest line and removes the newest.
RestOfQueueRemovesLast(buf) == SubSeq(buf, 1, Len(buf) - 1)

\* Mutant: the receive leaves the line in the buffer.
RestOfQueueKeepsHead(buf) == buf

\* What a receive leaves in the channel buffer
RestOfQueue(buf) == Tail(buf)

\* for logline := range l.logChannels
WriterRecv(w) ==
    LET me == writers[w] IN
    /\ Running
    /\ me.pc = "recv"
    /\ me.ch # 0
    /\ IF chans[me.ch].buf # <<>>
       THEN /\ writers' = [writers EXCEPT ![w].pc = "check",
                                          ![w].line = Head(chans[me.ch].buf).id,
                                          ![w].tag = Head(chans[me.ch].buf).tag]
            /\ chans' = [chans EXCEPT ![me.ch].buf = RestOfQueue(@)]
       ELSE /\ RangeEnds(me.ch)
            /\ writers' = [writers EXCEPT ![w].pc = "done"]
            /\ chans' = chans
    /\ UNCHANGED <<now, proc, ioFaults, LogLevel, FilePath, MaxDay, currentFile,
                   currentDate, logChannels, files, handles, mainPc, mainArgs,
                   nConfigure, producers, nextId, sweeps, writes,
                   sweepErrs>>

\* Mutant: the comparison is inverted.
NeedsRotationInverted(today, recorded) == today = recorded

\* currentDate := time.Now().Format(...); if currentDate != l.currentDate
NeedsRotation(today, recorded) == today # recorded

WriterCheck(w) ==
    LET me == writers[w]
        today == DateString(now)
    IN
    /\ Running
    /\ me.pc = "check"
    /\ writers' = [writers EXCEPT
                     ![w].pc = IF NeedsRotation(today, currentDate)
                               THEN "rotate" ELSE "write",
                     ![w].date = today]
    /\ UNCHANGED <<now, proc, ioFaults, LogLevel, FilePath, MaxDay, currentFile,
                   currentDate, logChannels, chans, files, handles, mainPc,
                   mainArgs, nConfigure, producers, nextId, sweeps,
                   writes, sweepErrs>>

\* createLogFile(date), the whole body under l.mutex
createLogFile(w) ==
    LET me == writers[w]
        file == JoinPath(FilePath, formatLogFileName(now))
    IN
    /\ Running
    /\ me.pc = "rotate"
    /\ \E ok \in IoOutcomes :
        IF ok
        THEN /\ files' = OpenedFiles(file)
             /\ handles' = Append(ClosedHandles(currentFile), NewHandle(file))
             /\ currentFile' = Len(handles) + 1
             /\ currentDate' = me.date
             /\ writers' = [writers EXCEPT ![w].pc = "write"]
             /\ proc' = proc
        ELSE \* the old file is closed, os.OpenFile failed: log.Fatal
             /\ handles' = ClosedHandles(currentFile)
             /\ proc' = "fatal"
             /\ UNCHANGED <<files, currentFile, currentDate, writers>>
    /\ UNCHANGED <<now, ioFaults, LogLevel, FilePath, MaxDay, logChannels,
                   chans, mainPc, mainArgs, nConfigure, producers,
                   nextId, sweeps, writes, sweepErrs>>

\* Whether a WriteString on handle h reaches a file
HandleWritable(h) == h # 0 /\ handles[h].open

\* The file system after a successful WriteString(line) on handle h
WrittenFiles(h, line) ==
    IF handles[h].linked
    THEN [files EXCEPT ![handles[h].path].lines = Append(@, line),
                       ![handles[h].path].mtime = now]
    ELSE files

\* _, _ = l.currentFile.WriteString(logline); go func() { l.clearOldLogs() }()
WriterWrite(w) ==
    LET me == writers[w]
        h == currentFile
    IN
    /\ Running
    /\ me.pc = "write"
    /\ \E io \in IoOutcomes :
        LET ok == io /\ HandleWritable(h) IN
        /\ files' = IF ok THEN WrittenFiles(h, me.line) ELSE files
        /\ writes' = Append(writes, [line |-> me.line, handle |-> h, ok |-> ok,
                                     date |-> me.date, writer |-> w])
    /\ writers' = [writers EXCEPT ![w].pc = "recv"]
    /\ sweeps' = SpawnSweep("write")
    /\ UNCHANGED <<now, proc, ioFaults, LogLevel, FilePath, MaxDay, currentFile,
                   currentDate, logChannels, chans, handles, mainPc, mainArgs,
                   nConfigure, producers, nextId, sweepErrs>>

(***************************************************************************)
(* clearOldLogs: the cutoff and the listing of l.FilePath by filepath.Walk, *)
(* then the walk function on one directory entry at a time.                *)
(***************************************************************************)
SweepStart(s) ==
    LET dir == relativePathToAbsPath(FilePath)
        todo == DirEntries(dir)
    IN
    /\ Running
    /\ sweeps[s].pc = "start"
    /\ sweeps' = IF todo = <<>> THEN RemoveAt(sweeps, s)
                 ELSE [sweeps EXCEPT ![s].pc = "visit", ![s].dir = dir,
                                     ![s].cutoff = CutoffDate(now, MaxDay),
                                     ![s].maxDay = MaxDay,
                                     ![s].todo = todo]
    /\ UNCHANGED <<now, proc, ioFaults, LogLevel, FilePath, MaxDay, currentFile,
                   currentDate, logChannels, chans, files, handles, mainPc,
                   mainArgs, nConfigure, producers, nextId, writers, writes,
                   sweepErrs>>

\* Mutant: every stale file is deleted, whatever its suffix.
ShouldRemoveAnySuffix(path, info, cutoff) ==
    /\ ~info.isDir
    /\ info.mtime < cutoff

\* The test of the walk function on one entry: delete it or leave it
ShouldRemove(path, info, cutoff) ==
    /\ ~info.isDir
    /\ info.mtime < cutoff
    /\ HasLogSuffix(path)

\* The walk function on the next entry (lstat, the tests, os.Remove)
SweepVisit(s) ==
    LET me == sweeps[s]
        path == [dir |-> me.dir, name |-> Head(me.todo)]
        next == IF Len(me.todo) = 1 THEN RemoveAt(sweeps, s)
                ELSE [sweeps EXCEPT ![s].todo = Tail(@)]
    IN
    /\ Running
    /\ me.pc = "visit"
    /\ IF ~Exists(path)
       THEN \* lstat fails, the walk function returns the error
            /\ sweeps' = RemoveAt(sweeps, s)
            /\ sweepErrs' = sweepErrs + 1
            /\ UNCHANGED <<files, handles>>
       ELSE IF ~ShouldRemove(path, files[path], me.cutoff)
       THEN /\ sweeps' = next
            /\ UNCHANGED <<files, handles, sweepErrs>>
       ELSE \E ok \in IoOutcomes :
            IF ok
            THEN /\ files' = RemovedFiles(path)
                 /\ handles' = UnlinkedHandles(path)
                 /\ sweeps' = next
                 /\ sweepErrs' = sweepErrs
            ELSE /\ sweeps' = RemoveAt(sweeps, s)
                 /\ sweepErrs' = sweepErrs + 1
                 /\ UNCHANGED <<files, handles>>
    /\ UNCHANGED <<now, proc, ioFaults, LogLevel, FilePath, MaxDay, currentFile,
                   currentDate, logChannels, chans, mainPc, mainArgs,
                   nConfigure, producers, nextId, writers, writes>>

(***************************************************************************)
(* Close: close(l.logChannels), then l.currentFile.Close().                *)
(***************************************************************************)
Close ==
    /\ Running
    /\ mainPc = "idle"
    /\ IF logChannels = 0 \/ (logChannels # 0 /\ chans[logChannels].closed)
       THEN \* close of a nil or of a closed channel
            /\ proc' = "panic"
            /\ UNCHANGED <<chans, handles>>
       ELSE /\ chans' = [chans EXCEPT ![logChannels].closed = TRUE]
            /\ handles' = ClosedHandles(currentFile)
            /\ proc' = proc
    /\ UNCHANGED <<now, ioFaults, LogLevel, FilePath, MaxDay, currentFile,
                   currentDate, logChannels, files, mainPc, mainArgs,
                   nConfigure, producers, nextId, writers, sweeps, writes,
                   sweepErrs>>

(***************************************************************************)
(* Specifications.  Next is the whole program.  The other next-state       *)
(* relations take some of its actions, with narrower inputs, so that every *)
(* behaviour of theirs is a behaviour of Spec.                             *)
(***************************************************************************)
Levels == {0, Debug, Info, Error, 4}
Paths == {"", "../LogFile"}
MaxDays == {-1, 0, 1}

Writer ==
    \/ \E w \in DOMAIN writers : WriterStart(w)
    \/ \E w \in DOMAIN writers : WriterRecv(w)
    \/ \E w \in DOMAIN writers : WriterCheck(w)
    \/ \E w \in DOMAIN writers : createLogFile(w)
    \/ \E w \in DOMAIN writers : WriterWrite(w)

Sweep ==
    \/ \E s \in DOMAIN sweeps : SweepStart(s)
    \/ \E s \in DOMAIN sweeps : SweepVisit(s)

Next ==
    \/ Tick
    \/ \E lv \in Levels, fp \in Paths, md \in MaxDays : InitLogger(lv, fp, md)
    \/ SetLogger
    \/ SetLoggerDate
    \/ \E p \in ProducerIds : Infof(p)
    \/ \E p \in ProducerIds : Errorf(p)
    \/ \E p \in ProducerIds : ErrorfFormat(p)
    \/ \E p \in ProducerIds : syncWriteLog(p)
    \/ Writer
    \/ Sweep
    \/ Close

Spec == Init /\ [][Next]_vars

\* One SetLogger call, two producers, the writer, the clock and Close; the
\* sweep goroutines are started and never scheduled.
NextPipeline ==
    \/ Tick
    \/ (nConfigure = 0 /\ InitLogger(Info, "../LogFile", 1))
    \/ SetLogger
    \/ SetLoggerDate
    \/ \E p \in ProducerIds : Infof(p)
    \/ \E p \in ProducerIds : Errorf(p)
    \/ \E p \in ProducerIds : ErrorfFormat(p)
    \/ \E p \in ProducerIds : syncWriteLog(p)
    \/ Writer
    \/ Close

SpecPipeline == Init /\ [][NextPipeline]_vars

\* One SetLogger call with any path and retention window, one producer that
\* logs all lines but one, the writer, the clock and the sweeps.
NextRetention ==
    \/ Tick
    \/ (nConfigure = 0 /\ \E fp \in Paths, md \in MaxDays : InitLogger(Info, fp, md))
    \/ SetLogger
    \/ SetLoggerDate
    \/ (nextId < MaxLines - 1 /\ Infof("p1"))
    \/ syncWriteLog("p1")
    \/ Writer
    \/ Sweep

SpecRetention == Init /\ [][NextRetention]_vars

\* Repeated SetLogger calls with any level, one producer that logs all lines
\* but one, the writers and the clock.
NextReconfigure ==
    \/ Tick
    \/ \E lv \in Levels : InitLogger(lv, "../LogFile", 1)
    \/ SetLogger
    \/ SetLoggerDate
    \/ (nextId < MaxLines - 1 /\ Infof("p1"))
    \/ syncWriteLog("p1")
    \/ Writer

SpecReconfigure == Init /\ [][NextReconfigure]_vars

\* One SetLogger call, one producer that logs all lines but one, the writer,
\* the clock and the sweeps, in an environment where any I/O call may fail.
NextFaults ==
    \/ Tick
    \/ (nConfigure = 0 /\ InitLogger(Info, "../LogFile", 1))
    \/ SetLogger
    \/ SetLoggerDate
    \/ (nextId < MaxLines - 1 /\ Infof("p1"))
    \/ syncWriteLog("p1")
    \/ Writer
    \/ Sweep

SpecFaults == InitFaults /\ [][NextFaults]_vars

\* Repeated SetLogger calls with any level and two producers calling Infof and
\* Errorf; the clock stands still and the writers are never scheduled.
NextLevels ==
    \/ \E lv \in Levels : InitLogger(lv, "../LogFile", 1)
    \/ SetLogger
    \/ SetLoggerDate
    \/ \E p \in ProducerIds : Infof(p)
    \/ \E p \in ProducerIds : Errorf(p)
    \/ \E p \in ProducerIds : ErrorfFormat(p)
    \/ \E p \in ProducerIds : syncWriteLog(p)

SpecLevels == Init /\ [][NextLevels]_vars

\* The logger at rest after its first line: SetLogger has returned, the line
\* is written, the queue is empty and no caller is inside Infof.
Quiet ==
    /\ mainPc = "idle"
    /\ nConfigure = 1
    /\ writes # <<>>
    /\ \A p \in ProducerIds : producers[p].pc = "idle"
    /\ \A w \in DOMAIN writers : writers[w].pc = "recv"
    /\ \A c \in DOMAIN chans : chans[c].buf = <<>>

\* A sweep has begun to run on the logger at rest
Sweeping == Quiet /\ (Len(sweeps) < 2 \/ \E s \in DOMAIN sweeps : sweeps[s].pc = "visit")

\* One SetLogger call with any path and retention window and one line.  The
\* startup sweep and the sweep of that line run once the logger is at rest,
\* one after the other, at one reading of the clock.
NextSweepTwice ==
    \/ (~Sweeping /\ Tick)
    \/ (nConfigure = 0 /\ \E fp \in Paths, md \in MaxDays : InitLogger(Info, fp, md))
    \/ SetLogger
    \/ SetLoggerDate
    \/ (nextId = 0 /\ Infof("p1"))
    \/ syncWriteLog("p1")
    \/ Writer
    \/ (Quiet /\ \E s \in DOMAIN sweeps :
            /\ \A r \in DOMAIN sweeps : sweeps[r].pc = "start"
            /\ SweepStart(s))
    \/ (Quiet /\ \E s \in DOMAIN sweeps : SweepVisit(s))

SpecSweepTwice == Init /\ [][NextSweepTwice]_vars

\* One SetLogger call, one producer that logs all lines but one, the writer,
\* the clock and Close.  The scheduler runs a goroutine that can take a step:
\* the writer is not left waiting for ever while it can go on.
NextShutdown ==
    \/ Tick
    \/ (nConfigure = 0 /\ InitLogger(Info, "../LogFile", 1))
    \/ SetLogger
    \/ SetLoggerDate
    \/ (nextId < MaxLines - 1 /\ Infof("p1"))
    \/ syncWriteLog("p1")
    \/ Writer
    \/ Close

SpecShutdown == Init /\ [][NextShutdown]_vars /\ WF_vars(Writer)

(***************************************************************************)
(* Vocabulary of the properties.                                           *)
(***************************************************************************)
Range(f) == {f[i] : i \in DOMAIN f}

\* Lines whose Infof/Errorf call has returned (the line went into the queue)
Returned == {id \in 1..nextId :
                \A p \in ProducerIds : ~(producers[p].pc = "send" /\ producers[p].line = id)}

\* Lines waiting in a channel buffer, and lines a writer holds between its
\* receive and its write
Queued == {m.id : m \in UNION {Range(chans[c].buf) : c \in DOMAIN chans}}

Held == {writers[w].line : w \in {v \in DOMAIN writers :
                                    writers[v].pc \in {"check", "rotate", "write"}}}

WritesOf(id) == {i \in DOMAIN writes : writes[i].line = id}

\* How many times line id stands in the files of the file system
RECURSIVE Occurrences(_, _)
Occurrences(seq, id) ==
    IF seq = <<>> THEN 0
    ELSE (IF Head(seq) = id THEN 1 ELSE 0) + Occurrences(Tail(seq), id)

RECURSIVE OccurrencesIn(_, _)
OccurrencesIn(paths, id) ==
    IF paths = {} THEN 0
    ELSE LET q == CHOOSE r \in paths : TRUE
         IN  Occurrences(files[q].lines, id) + OccurrencesIn(paths \ {q}, id)

InFiles(id) == OccurrencesIn(DOMAIN files, id)

CloseReturned == \E c \in DOMAIN chans : chans[c].closed

WritersDone == writers # <<>> /\ \A w \in DOMAIN writers : writers[w].pc = "done"

ProducersIdle == \A p \in ProducerIds : producers[p].pc = "idle"

(***************************************************************************)
(* C1: shutdown loses nothing.  When every Infof/Errorf call returned      *)
(* before Close, Close has returned and the writer task has finished,      *)
(* every enqueued line stands in a log file, none is left unwritten, and   *)
(* the file handle is closed.                                              *)
(* The code closes the file in Close itself, before the writer has         *)
(* drained the queue, so the lines still queued are written to a closed    *)
(* handle and lost: TLC refutes the statement.                             *)
(***************************************************************************)
C1_ShutdownLosesNothing ==
    (Running /\ CloseReturned /\ WritersDone /\ ProducersIdle) =>
        /\ \A id \in 1..nextId : InFiles(id) = 1
        /\ Queued = {}
        /\ ~handles[currentFile].open

\* The case of C1: a line was enqueued, Close returned, the writer finished.
C1_Witness ==
    Running /\ CloseReturned /\ WritersDone /\ ProducersIdle /\ nextId >= 1

(***************************************************************************)
(* C2: exactly N lines for N calls.  On a configured, unclosed logger      *)
(* every line whose call has returned is in exactly one place: waiting in  *)
(* the queue, held by the writer, or written by exactly one successful     *)
(* WriteString and standing exactly once in exactly one file.  No line is  *)
(* written twice, and nothing is written that was not enqueued.            *)
(***************************************************************************)
C2_ExactlyOnce ==
    /\ \A i \in DOMAIN writes : writes[i].line \in Returned
    /\ \A id \in 1..nextId : Cardinality(WritesOf(id)) <= 1
    /\ ~CloseReturned =>
         \A id \in Returned :
            /\ (IF id \in Queued THEN 1 ELSE 0) + (IF id \in Held THEN 1 ELSE 0)
                 + Cardinality(WritesOf(id)) = 1
            /\ \A i \in WritesOf(id) : writes[i].ok
            /\ InFiles(id) = Cardinality(WritesOf(id))

\* The case of C2: both producers have logged, all N = MaxLines lines are
\* written and the queue is empty.
C2_Witness ==
    /\ ~CloseReturned
    /\ nextId = MaxLines
    /\ Len(writes) = MaxLines
    /\ {writes[i].line : i \in DOMAIN writes} = 1..MaxLines
    /\ \A id \in 1..MaxLines : InFiles(id) = 1

(***************************************************************************)
(* C3: backpressure.  No channel buffer ever holds more than its capacity, *)
(* and a send completes only in a step that starts with room in the        *)
(* buffer and appends the line to it: a caller that finds the queue full   *)
(* stays in its call until the writer has taken a line, and the line is    *)
(* neither dropped nor answered with an error.                             *)
(***************************************************************************)
QueueWithinCapacity == \A c \in DOMAIN chans : Len(chans[c].buf) <= ChanCap

SendNeedsRoom ==
    \A p \in ProducerIds :
        (producers[p].pc = "send" /\ producers'[p] # producers[p]) =>
            LET c == producers[p].ch IN
            /\ Len(chans[c].buf) < ChanCap
            /\ chans'[c].buf = Append(chans[c].buf,
                                      [id |-> producers[p].line, tag |-> producers[p].tag])
            /\ producers'[p].pc = "idle"
            /\ proc' = "running"

FullQueueBlocks ==
    \A p \in ProducerIds :
        (/\ producers[p].pc = "send"
         /\ producers[p].ch # 0
         /\ ~chans[producers[p].ch].closed
         /\ Len(chans[producers[p].ch].buf) = ChanCap
         /\ chans'[producers[p].ch].buf = chans[producers[p].ch].buf)
        => producers'[p] = producers[p]

C3_Backpressure ==
    /\ [](QueueWithinCapacity)
    /\ [][SendNeedsRoom /\ FullQueueBlocks]_vars

\* The case of C3: the queue is full and a caller is blocked in its send.
C3_Witness ==
    \E p \in ProducerIds :
        /\ producers[p].pc = "send"
        /\ producers[p].ch # 0
        /\ ~chans[producers[p].ch].closed
        /\ Len(chans[producers[p].ch].buf) = ChanCap

C7_CloseAfterDrain ==
    /\ (CloseReturned /\ currentFile # 0 /\ ~handles[currentFile].open) => WritersDone
    /\ \A i \in DOMAIN writes : writes[i].handle # 0 /\ writes[i].ok

\* The case of C7: Close has returned while a line was still queued.
C7_Witness == CloseReturned /\ Queued # {} /\ Running

(***************************************************************************)
(* C5: retention selectivity.  A path leaves the file system only in a     *)
(* step of a sweep that is visiting it, and only if it is a regular file   *)
(* whose name ends in ".log" and whose modification time is strictly       *)
(* before the cutoff of that sweep; the cutoff of a sweep is the time at   *)
(* which it starts minus l.MaxDay days.  The stale file without the .log   *)
(* suffix and the stale directory are therefore always there.              *)
(***************************************************************************)
NotesFile == [dir |-> LogDir, name |-> [stem |-> "notes", ext |-> ".txt"]]
ArchiveDir == [dir |-> LogDir, name |-> [stem |-> "archive", ext |-> ".log"]]
OldLog == [dir |-> LogDir, name |-> [stem |-> "old", ext |-> ".log"]]

OthersKept ==
    /\ Exists(NotesFile) /\ files[NotesFile].mtime = StaleTime
    /\ Exists(ArchiveDir) /\ files[ArchiveDir].isDir

OnlyStaleLogsRemoved ==
    \A path \in DOMAIN files :
        path \notin DOMAIN files' =>
            /\ ~files[path].isDir
            /\ HasLogSuffix(path)
            /\ \E s \in DOMAIN sweeps :
                /\ sweeps[s].pc = "visit"
                /\ path = [dir |-> sweeps[s].dir, name |-> Head(sweeps[s].todo)]
                /\ files[path].mtime < sweeps[s].cutoff
                /\ sweeps[s].cutoff <= now - sweeps[s].maxDay * TicksPerDay

CutoffIsNowMinusMaxDay ==
    \A s \in DOMAIN sweeps :
        (sweeps[s].pc = "start" /\ s \in DOMAIN sweeps' /\ sweeps'[s].pc = "visit"
           /\ Len(sweeps') = Len(sweeps)) =>
            /\ sweeps'[s].cutoff = now - MaxDay * TicksPerDay
            /\ sweeps'[s].maxDay = MaxDay
            /\ sweeps'[s].dir = relativePathToAbsPath(FilePath)

C5_RetentionSelective ==
    /\ [](OthersKept)
    /\ [][OnlyStaleLogsRemoved /\ CutoffIsNowMinusMaxDay]_vars

\* The case of C5: a sweep of the log directory has deleted the stale .log
\* file and left the stale non-log file, the directory and a recent .log file.
C5_Witness ==
    /\ FilePath = LogDir
    /\ ~Exists(OldLog)
    /\ OthersKept
    /\ sweeps = <<>>
    /\ \E path \in DOMAIN files :
         path.dir = LogDir /\ HasLogSuffix(path) /\ ~files[path].isDir

(***************************************************************************)
(* C6: a sweep never deletes the file that is open for writing, whatever   *)
(* MaxDay SetLogger was given.                                             *)
(* With MaxDay <= 0 the cutoff is not before the time of the sweep, and    *)
(* a sweep that runs after a write deletes the file just written, which    *)
(* the writer goes on writing to: TLC refutes the statement.               *)
(***************************************************************************)
C6_OpenFileNeverDeleted ==
    [][(/\ writes # <<>>
        /\ currentFile # 0
        /\ handles[currentFile].open
        /\ handles[currentFile].linked)
       => (/\ handles'[currentFile].linked
           /\ handles[currentFile].path \in DOMAIN files')]_vars

\* The case of C6: a sweep is visiting the directory of the open file after
\* a line has been written.
C6_Witness ==
    /\ writes # <<>>
    /\ currentFile # 0
    /\ \E s \in DOMAIN sweeps :
         sweeps[s].pc = "visit" /\ sweeps[s].dir = handles[currentFile].path.dir

(***************************************************************************)
(* C8: after SetLogger has returned, for every configuration, the file     *)
(* named with today's date exists in the resolved directory and is the     *)
(* open file of the logger, and it is still there until the first line is  *)
(* written.                                                                *)
(* With MaxDay <= 0 the startup sweep deletes the file as soon as the      *)
(* clock has moved: TLC refutes the statement.                             *)
(***************************************************************************)
C8_TodayFileExists ==
    (nConfigure >= 1 /\ mainPc = "idle" /\ writes = <<>>) =>
        /\ currentFile # 0
        /\ handles[currentFile].path \in
             {JoinPath(FilePath, formatLogFileName(t)) : t \in 0..now}
        /\ handles[currentFile].linked
        /\ Exists(handles[currentFile].path)
        /\ ~files[handles[currentFile].path].isDir

\* The case of C8: SetLogger has returned with MaxDay <= 0, the startup sweep
\* has finished and the writer is about to write the first line.
C8_Witness ==
    /\ nConfigure >= 1 /\ mainPc = "idle" /\ writes = <<>>
    /\ MaxDay <= 0
    /\ sweeps = <<>>
    /\ \E w \in DOMAIN writers : writers[w].pc = "write"

(***************************************************************************)
(* C9: every SetLogger call starts exactly one writer task, and at every   *)
(* moment at most one writer task consumes the queue of the logger, so     *)
(* that no two writer tasks are between a receive and its write at once.   *)
(* Every SetLogger call makes a new channel and starts one more writer     *)
(* without stopping the earlier one; a writer evaluates l.logChannels when *)
(* it starts to run, so two of them can range over the same channel: TLC   *)
(* refutes the statement.                                                  *)
(***************************************************************************)
ConsumersOf(c) ==
    {w \in DOMAIN writers :
        writers[w].ch = c /\ writers[w].pc \in {"recv", "check", "rotate", "write"}}

Busy == {w \in DOMAIN writers : writers[w].pc \in {"check", "rotate", "write"}}

C9_SingleWriter ==
    /\ Len(writers) = nConfigure - (IF mainPc # "idle" THEN 1 ELSE 0)
    /\ logChannels # 0 => Cardinality(ConsumersOf(logChannels)) <= 1
    /\ Cardinality(Busy) <= 1

\* The case of C9: SetLogger has returned twice.
C9_Witness == nConfigure = 2 /\ mainPc = "idle" /\ Len(writers) = 2

(***************************************************************************)
(* C10: steady-state errors degrade.  Once SetLogger has succeeded, no     *)
(* failure of a write, of the open of a rotation or of a delete ends the   *)
(* process.                                                                *)
(* createLogFile calls log.Fatal when os.OpenFile fails, which ends the    *)
(* process: TLC refutes the statement.                                     *)
(***************************************************************************)
C10_ErrorsDegrade == writers # <<>> => proc = "running"

\* The case of C10: a write has failed and the writer is back at its receive.
C10_Witness ==
    /\ Running
    /\ \E i \in DOMAIN writes : ~writes[i].ok
    /\ \E w \in DOMAIN writers : writers[w].pc = "recv"

(***************************************************************************)
(* C11: Errorf sets the level to Error before it formats its line, a line  *)
(* formatted while the level is Error carries the tag "Error", whether     *)
(* Infof or Errorf formats it, and once the level is Error only a step of  *)
(* a SetLogger call (the default of InitLogger, or the level switch) takes *)
(* it away from Error.  Hence every line formatted after an Errorf call,   *)
(* the line of that call included, carries the tag "Error" as long as no   *)
(* SetLogger call has set the level since.                                 *)
(***************************************************************************)
\* The step in which producer p formats its line
Formats(p) == producers[p].pc # "send" /\ producers'[p].pc = "send"

LevelSetByErrorf ==
    \A p \in ProducerIds :
        (producers[p].pc = "idle" /\ producers'[p].pc = "Errorf") =>
            /\ LogLevel' = Error
            /\ nextId' = nextId

ErrorTagWhileError ==
    \A p \in ProducerIds :
        (Formats(p) /\ LogLevel = Error) =>
            /\ producers'[p].tag = "Error"
            /\ LogLevel' = Error

LevelKeptUntilConfigure ==
    (LogLevel = Error /\ LogLevel' # Error) =>
        \/ mainPc = "idle" /\ nConfigure' = nConfigure + 1 /\ LogLevel' = Info
        \/ mainPc = "SetLogger" /\ mainPc' = "SetLoggerDate"
             /\ LogLevel' = mainArgs.Level

C11_ErrorTagAfterErrorf ==
    [][LevelSetByErrorf /\ ErrorTagWhileError /\ LevelKeptUntilConfigure]_vars

\* The case of C11: after an Errorf call both producers have formatted and
\* enqueued a line with the tag "Error", and a third call is formatting.
C11_Witness ==
    /\ LogLevel = Error
    /\ nextId = MaxLines
    /\ \A p \in ProducerIds : producers[p].line # 0 /\ producers[p].tag = "Error"
    /\ \E c \in DOMAIN chans : \E i \in DOMAIN chans[c].buf : chans[c].buf[i].tag = "Error"

(***************************************************************************)
(* C12: level policy of SetLogger.  When SetLogger has run its level       *)
(* switch, the level is Info for level 0, the given level for Debug, Info  *)
(* and Error, and for any other level the level the logger had before the  *)
(* call, when one had been set.                                            *)
(* SetLogger begins with InitLogger, which sets the level to Info, so a    *)
(* level that is not recognised leaves Info, not the earlier level: TLC    *)
(* refutes the statement.                                                  *)
(***************************************************************************)
LevelPolicy(Level, was) ==
    CASE Level = 0 -> Info
      [] Level \in {Debug, Info, Error} -> Level
      [] OTHER -> was

C12_LevelPolicy ==
    [][(mainPc = "SetLogger" /\ mainPc' = "SetLoggerDate" /\ mainArgs.was # 0) =>
          LogLevel' = LevelPolicy(mainArgs.Level, mainArgs.was)]_vars

\* The case of C12: a SetLogger call with a level that is not recognised has
\* returned, on a logger whose level an earlier call had set to Error.
C12_Witness ==
    /\ mainPc = "idle"
    /\ nConfigure >= 2
    /\ mainArgs.Level \notin {0, Debug, Info, Error}
    /\ mainArgs.was = Error

(***************************************************************************)
(* C13: sweep idempotence.  When two sweeps run one after the other on a   *)
(* logger at rest, with nothing else changing the file system and the      *)
(* clock standing still, neither returns an error, and no step of the      *)
(* second changes the file system: it deletes nothing and leaves the       *)
(* directory as the first left it.                                         *)
(***************************************************************************)
\* The first of the two sweeps has finished, the second is left
SecondRun == Quiet /\ Len(sweeps) = 1

C13_SweepIdempotent ==
    /\ [](Quiet => sweepErrs = 0)
    /\ [][SecondRun => (files' = files /\ handles' = handles
                          /\ sweepErrs' = sweepErrs)]_vars

\* The case of C13: both sweeps have finished and the first one has deleted
\* the stale log file of the log directory.
C13_Witness ==
    /\ Quiet
    /\ sweeps = <<>>
    /\ ~Exists([dir |-> FilePath, name |-> [stem |-> "old", ext |-> ".log"]])

(***************************************************************************)
(* C14: in every reachable state at most one of the file handles the       *)
(* logger has opened is open.                                              *)
(* SetLogger opens today's file and stores the handle without closing the  *)
(* handle an earlier SetLogger call or a rotation left in l.currentFile:   *)
(* TLC refutes the statement.                                              *)
(***************************************************************************)
OpenHandles == {h \in DOMAIN handles : handles[h].open}

C14_OneOpenHandle == Cardinality(OpenHandles) <= 1

\* The case of C14: a second SetLogger call has opened its file.
C14_Witness ==
    /\ nConfigure = 2
    /\ mainPc = "SetLoggerDate"
    /\ Len(handles) >= 2
    /\ currentFile = Len(handles)

(***************************************************************************)
(* C15: the writer rotates exactly when today's date differs from the date *)
(* of the open file.  In the step in which the writer compares the dates   *)
(* for a line it has popped, it goes on to createLogFile if and only if    *)
(* the date it reads differs from the date in the name of the open file;   *)
(* otherwise it writes to the open file at once.                           *)
(* SetLogger records the file name, "YYYY-MM-DD.log", as the date of the   *)
(* file, and the writer compares it with "YYYY-MM-DD": the first line      *)
(* after SetLogger always closes and reopens the file.  TLC refutes the    *)
(* statement.                                                              *)
(***************************************************************************)
DateOfOpenFile == handles[currentFile].path.name.stem

C15_RotatesIffDateDiffers ==
    [][\A w \in DOMAIN writers :
          (writers[w].pc = "check" /\ writers'[w].pc # "check") =>
              (writers'[w].pc = "rotate" <=> DateString(now).stem # DateOfOpenFile)]_vars

\* The case of C15: the writer has compared the dates for the first line after
\* SetLogger, on the day on which SetLogger opened the file.
C15_Witness ==
    /\ writes = <<>>
    /\ nConfigure = 1
    /\ \E w \in DOMAIN writers :
         /\ writers[w].pc \in {"rotate", "write"}
         /\ writers[w].date.stem = DateOfOpenFile
         /\ DateString(now).stem = DateOfOpenFile

(***************************************************************************)
(* C16: overlapping sweeps.  A sweep that finds its next file already      *)
(* deleted aborts without ending the process or touching the writer, and   *)
(* when it is the last of the overlapping sweeps to finish, no regular     *)
(* .log file older than its cutoff is left among the entries it had still  *)
(* to visit.                                                               *)
(* A sweep that started later has a later cutoff than the sweep that       *)
(* deleted its target; when it aborts, the files that only it would have   *)
(* deleted stay.  TLC refutes the statement.                               *)
(***************************************************************************)
\* Sweep s returns the error of the walk in this step
Aborts(s) ==
    /\ sweeps[s].pc = "visit"
    /\ sweeps' = RemoveAt(sweeps, s)
    /\ sweepErrs' = sweepErrs + 1

\* The entries sweep s has not visited yet, the one it is at excluded
Unvisited(s) ==
    {[dir |-> sweeps[s].dir, name |-> sweeps[s].todo[i]] : i \in 2..Len(sweeps[s].todo)}

AbortIsHarmless ==
    \A s \in DOMAIN sweeps :
        Aborts(s) => (proc' = "running" /\ writers' = writers /\ files' = files)

AbortLeavesNothingExpired ==
    \A s \in DOMAIN sweeps :
        (Aborts(s) /\ \A r \in DOMAIN sweeps' : sweeps'[r].pc = "start") =>
            \A path \in Unvisited(s) :
                path \in DOMAIN files' =>
                    ~ShouldRemove(path, files'[path], sweeps[s].cutoff)

C16_OverlapRemovesExpired == [][AbortIsHarmless /\ AbortLeavesNothingExpired]_vars

\* The case of C16: of two sweeps that ran at once one has aborted on a file
\* the other had deleted, and both have finished.
C16_Witness ==
    /\ sweepErrs >= 1
    /\ sweeps = <<>>
    /\ Running
    /\ \E w \in DOMAIN writers : writers[w].pc = "recv"

(***************************************************************************)
(* C17: writer termination.  A writer waiting on an empty, open queue      *)
(* takes no step; a writer terminates only in a step that finds its queue  *)
(* closed and empty; and once Close has closed the queue, the writer,      *)
(* scheduled fairly, pops every line left and terminates (unless a caller  *)
(* breaks the precondition of Close by sending on the closed queue, which  *)
(* ends the process).                                                      *)
(***************************************************************************)
WriterWaits ==
    \A w \in DOMAIN writers :
        (/\ writers[w].pc = "recv"
         /\ chans[writers[w].ch].buf = <<>>
         /\ ~chans[writers[w].ch].closed) => writers'[w] = writers[w]

WriterEndsOnlyWhenDrained ==
    \A w \in DOMAIN writers :
        (writers[w].pc # "done" /\ writers'[w].pc = "done") =>
            /\ writers[w].pc = "recv"
            /\ chans[writers[w].ch].closed
            /\ chans[writers[w].ch].buf = <<>>

C17_WriterTerminates ==
    /\ [][WriterWaits /\ WriterEndsOnlyWhenDrained]_vars
    /\ (CloseReturned ~> ((WritersDone /\ Queued = {}) \/ ~Running))

\* The case of C17: Close has closed the queue with lines in it, the writer
\* has popped and handled them and has terminated.
C17_Witness ==
    /\ CloseReturned
    /\ WritersDone
    /\ Queued = {}
    /\ nextId = MaxLines - 1
    /\ Len(writes) = nextId

(***************************************************************************)
(* C18: every sweep walks the directory and uses the retention window      *)
(* that were given to SetLogger, the startup sweep included.               *)
(* InitLogger starts the startup sweep right after it has stored the       *)
(* defaults (".", 7 days) and before SetLogger stores its arguments; the   *)
(* sweep reads l.MaxDay and l.FilePath when it gets to run, which may be   *)
(* before that.  TLC refutes the statement.                                *)
(***************************************************************************)
ConfiguredDir ==
    relativePathToAbsPath(IF mainArgs.FilePath # "" THEN mainArgs.FilePath ELSE ".")

C18_SweepReadsConfiguration ==
    \A s \in DOMAIN sweeps :
        sweeps[s].pc = "visit" =>
            /\ sweeps[s].dir = ConfiguredDir
            /\ sweeps[s].maxDay = mainArgs.MaxDay

\* The case of C18: the startup sweep is walking a directory while SetLogger
\* has not stored its arguments yet.
C18_Witness ==
    /\ mainPc = "SetLogger"
    /\ \E s \in DOMAIN sweeps : sweeps[s].origin = "startup" /\ sweeps[s].pc = "visit"

(***************************************************************************)
(* C19: FIFO order.  The lines written, followed by the line the writer    *)
(* holds, followed by the lines in the queue, form one sequence that every *)
(* step only extends at its end (a push): the writer therefore writes the  *)
(* lines in the order in which they were pushed, rotations included.  The  *)
(* lines of each file stand in the order in which they were written, and   *)
(* a caller begins a call only when the line of its earlier call has been  *)
(* pushed, so that line is written first.                                  *)
(***************************************************************************)
WrittenSeq == [i \in 1..Len(writes) |-> writes[i].line]

HeldSeq ==
    LET busy == SelectSeq(writers, LAMBDA r : r.pc \in {"check", "rotate", "write"})
    IN  [i \in 1..Len(busy) |-> busy[i].line]

QueuedSeq ==
    IF logChannels = 0 THEN <<>>
    ELSE [i \in 1..Len(chans[logChannels].buf) |-> chans[logChannels].buf[i].id]

Pipeline == WrittenSeq \o HeldSeq \o QueuedSeq

IsPrefix(a, b) == Len(a) <= Len(b) /\ SubSeq(b, 1, Len(a)) = a

WritePosition(id) == CHOOSE k \in DOMAIN writes : writes[k].line = id

FileOrder ==
    \A f \in DOMAIN files :
        \A i, j \in DOMAIN files[f].lines :
            i < j => WritePosition(files[f].lines[i]) < WritePosition(files[f].lines[j])

EarlierCallPushed ==
    \A p \in ProducerIds :
        (producers[p].pc \in {"idle", "Errorf"} /\ producers[p].line # 0
           /\ producers[p].ch # 0) =>
            producers[p].line \in Range(Pipeline)

C19_Fifo ==
    /\ []FileOrder
    /\ []EarlierCallPushed
    /\ [][IsPrefix(Pipeline, Pipeline')]_vars

\* The case of C19: after a first line was written two lines wait in the
\* queue, pushed in the reverse of the order in which they were formatted.
C19_Witness ==
    /\ writes # <<>>
    /\ logChannels # 0
    /\ Len(chans[logChannels].buf) = 2
    /\ chans[logChannels].buf[1].id > chans[logChannels].buf[2].id

(***************************************************************************)
(* C20: the recorded date matches the open file.  Whenever SetLogger has   *)
(* returned and no rotation is under way, the date the logger records in   *)
(* l.currentDate is the date in the name of the file that is open.         *)
(* SetLogger and createLogFile each read the clock once for the name of    *)
(* the file and once more for the recorded date; when midnight falls       *)
(* between the two readings the logger records one day and has the file    *)
(* of the other day open.  TLC refutes the statement.                      *)
(***************************************************************************)
C20_RecordedDateMatchesFile ==
    (mainPc = "idle" /\ currentFile # 0) =>
        currentDate.stem = handles[currentFile].path.name.stem

\* The case of C20: the clock has crossed midnight while the writer was about
\* to rotate, and the rotation has taken place.
C20_Witness ==
    /\ mainPc = "idle"
    /\ Len(handles) >= 2
    /\ currentFile = Len(handles)
    /\ currentDate.ext = ""
    /\ handles[currentFile].path.name = formatLogFileName(now)
    /\ currentDate # DateString(now)
    /\ \E w \in DOMAIN writers : writers[w].pc = "write"

====
